---- MODULE Spec2Model ----
(***************************************************************************)
(* Order-fulfilment saga of prometheus-metrics/app/services:               *)
(* OrderService (create_order, process_order_payment, cancel_order),       *)
(* InventoryService (reserve_stock, release_reservation) and the payment   *)
(* record kept by PaymentService.process_payment; next to them the price   *)
(* update of ProductService, the stock update of InventoryService, the     *)
(* notifications' outcome, and the reserve and release handlers of         *)
(* microservices/inventory-service (ms_ variables).                        *)
(*                                                                         *)
(* Every request runs as one asyncio task with its own AsyncSession        *)
(* (routers: Depends(get_session)).  A task yields at every await, so one  *)
(* action of the model is the code between two database round trips.  The  *)
(* session is built with expire_on_commit=False: a row that the session    *)
(* has loaded stays in its identity map with the attribute values it was   *)
(* loaded with, a commit writes the columns the session changed as         *)
(* absolute values, and nothing takes a row lock (no with_for_update).     *)
(***************************************************************************)
EXTENDS Integers, Sequences, FiniteSets, TLC

VARIABLES
    stock,      \* table stock: product_id -> row or NoRow
    resv,       \* table stock_reservations, in id order
    orders,     \* table orders (with its order_items), in id order
    payments,   \* table payments, in id order
    price,      \* table products: product_id -> price
    unsent,     \* table notifications: the number of rows left PENDING
    calls,      \* requests accepted so far
    task,       \* the request tasks: position, arguments, session state
    ms_stock,   \* inventory microservice, table stock: product_id -> row
    ms_resv,    \* inventory microservice, table stock_reservations (rows)
    ms_seq,     \* inventory microservice, last reservation id handed out
    ms_calls,   \* inventory microservice, requests accepted so far
    ms_req      \* inventory microservice, the request handlers in flight

msvars == <<ms_stock, ms_resv, ms_seq, ms_calls, ms_req>>

vars == <<stock, resv, orders, payments, price, unsent, calls, task,
          ms_stock, ms_resv, ms_seq, ms_calls, ms_req>>

----------------------------------------------------------------------------
\* Bounds of the model.
NumTasks == 2
MaxOrders == 2
MaxItems == 2
MaxQty == 1
MaxCalls == 3
MaxLines == 3
MaxUnsent == 1
MaxMsCalls == 4

Tasks == 1..NumTasks
OrderIds == 1..MaxOrders

\* Catalogue of the model: products 1 and 2 have a stock row (1 and 2 units),
\* product 3 is in the catalogue without a stock row, product 4 is not in the
\* catalogue.  User 1 exists, user 2 does not.
StockedProducts == {1, 2}
KnownProducts == {1, 2, 3}
AnyProducts == {1, 2, 3, 4}
KnownUsers == {1}
AnyUsers == {1, 2}
ProductPrice == [p \in KnownProducts |-> p + 1]
InitAvailable == [p \in StockedProducts |-> p]

\* OrderStatus values used by the saga (models.py).
PENDING == "pending"
CONFIRMED == "confirmed"
CANCELLED == "cancelled"

NoRow == [none |-> TRUE]

Quantities == 1..MaxQty
ItemsOfLen(n) == [1..n -> [product_id : AnyProducts, quantity : Quantities]]
ItemLists == UNION {ItemsOfLen(n) : n \in 1..MaxItems}

\* Requests of up to MaxLines lines, so that a line can be neither the first
\* nor the last, over a stocked product and a product missing from the
\* catalogue.
LongProducts == {2, 4}
LongItemLists ==
    UNION {[1..n -> [product_id : LongProducts, quantity : Quantities]] :
              n \in 1..MaxLines}

\* Every request body the schema of routers/orders.py accepts: "quantity: int"
\* and "items: List[OrderItemCreate]" carry no constraint, so a quantity may
\* be zero or negative and the list may be empty.  The model draws the empty
\* list and the one-line lists.
RawQuantities == -1..MaxQty
RawItemLists ==
    {<<>>} \cup {<<[product_id |-> p, quantity |-> q]>> :
                    p \in StockedProducts, q \in RawQuantities}

----------------------------------------------------------------------------
\* Helpers.

RECURSIVE SeqSum(_)
SeqSum(s) == IF s = <<>> THEN 0 ELSE Head(s) + SeqSum(Tail(s))

RECURSIVE SetToSeq(_)
\* ids in ascending order: the order the rows come back in
SetToSeq(S) ==
    IF S = {} THEN <<>>
    ELSE LET m == CHOOSE x \in S : \A y \in S : x <= y
         IN <<m>> \o SetToSeq(S \ {m})

ActiveIds(order_id) ==
    {i \in DOMAIN resv : resv[i].order_id = order_id /\ resv[i].active}

\* The session's identity map for Stock rows: product_id -> NoRow (not
\* loaded) or the loaded row with the values it was loaded with (a0, r0).
EmptyCache == [p \in StockedProducts |-> NoRow]

IdleTask ==
    [pc |-> "idle", op |-> "none", order_id |-> 0, user_id |-> 0,
     items |-> <<>>, idx |-> 0, cache |-> EmptyCache,
     rq |-> <<>>, pend |-> {}, seen |-> "none", new_status |-> "none",
     payment |-> 0, pay_status |-> "none", released |-> FALSE,
     ret |-> "none"]

Finished(t, r) ==
    [t EXCEPT !.pc = "idle", !.ret = r, !.cache = EmptyCache,
              !.rq = <<>>, !.pend = {}, !.idx = 0, !.items = <<>>,
              !.new_status = "none", !.released = FALSE, !.payment = 0,
              !.user_id = 0]

\* session.execute(select(Stock)...): a row already in the identity map keeps
\* its loaded attribute values.
LoadStock(cache, p) ==
    IF cache[p] # NoRow THEN cache
    ELSE [cache EXCEPT ![p] =
            [a |-> stock[p].available_quantity, r |-> stock[p].reserved_quantity,
             a0 |-> stock[p].available_quantity, r0 |-> stock[p].reserved_quantity]]

\* session.commit(): UPDATE stock SET <changed columns> = <session values>.
FlushStock(cache) ==
    [p \in DOMAIN stock |->
        IF p \in StockedProducts /\ cache[p] # NoRow
        THEN [available_quantity |->
                 IF cache[p].a # cache[p].a0 THEN cache[p].a
                 ELSE stock[p].available_quantity,
              reserved_quantity |->
                 IF cache[p].r # cache[p].r0 THEN cache[p].r
                 ELSE stock[p].reserved_quantity]
        ELSE stock[p]]

Committed(cache) ==
    [p \in StockedProducts |->
        IF cache[p] = NoRow THEN NoRow
        ELSE [cache[p] EXCEPT !.a0 = cache[p].a, !.r0 = cache[p].r]]

\* Inventory microservice: a handler between two requests, and its session's
\* identity map for Stock rows (r: reserved_quantity in memory, r0: as loaded).
MsIdle ==
    [pc |-> "idle", op |-> "none", product_id |-> 0, quantity |-> 0,
     order_id |-> 0, cache |-> EmptyCache, rq |-> <<>>, pend |-> {},
     ret |-> "none"]

MsDone(t, r) == [MsIdle EXCEPT !.op = t.op, !.ret = r]

----------------------------------------------------------------------------
Init ==
    /\ stock = [p \in AnyProducts |->
                  IF p \in StockedProducts
                  THEN [available_quantity |-> InitAvailable[p],
                        reserved_quantity |-> 0]
                  ELSE NoRow]
    /\ resv = <<>>
    /\ orders = <<>>
    /\ payments = <<>>
    /\ price = ProductPrice
    /\ unsent = 0
    /\ calls = 0
    /\ task = [t \in Tasks |-> IdleTask]
    /\ ms_stock = [p \in StockedProducts |->
                     [available_quantity |-> InitAvailable[p],
                      reserved_quantity |-> 0]]
    /\ ms_resv = {}
    /\ ms_seq = 0
    /\ ms_calls = 0
    /\ ms_req = [t \in Tasks |-> MsIdle]

----------------------------------------------------------------------------
\* InventoryService.reserve_stock

\* What the caller does with reserve_stock's result.
AfterReserve(t, reserved) ==
    IF t.op = "reserve" THEN Finished(t, IF reserved THEN "true" ELSE "false")
    ELSE IF ~reserved
         \* create_order: raise ValueError -> except -> _cancel_order_internal
         THEN [t EXCEPT !.pc = "rel_select", !.new_status = CANCELLED]
         ELSE IF t.idx < Len(t.items)
              THEN [t EXCEPT !.pc = "res_read", !.idx = t.idx + 1]
              ELSE [t EXCEPT !.pc = "co_notify"]

\* get_stock_by_product_id, the availability check and the in-memory update,
\* up to the await of session.commit().
ReserveRead(self) ==
    LET t == task[self]
        p == t.items[t.idx].product_id
        q == t.items[t.idx].quantity
    IN /\ t.pc = "res_read"
       /\ IF stock[p] = NoRow
          THEN task' = [task EXCEPT ![self] = AfterReserve(t, FALSE)]
          ELSE LET c == LoadStock(t.cache, p)
               IN IF c[p].a < q
                  THEN task' = [task EXCEPT ![self] =
                                  AfterReserve([t EXCEPT !.cache = c], FALSE)]
                  ELSE task' = [task EXCEPT ![self] =
                                  [t EXCEPT !.pc = "res_commit",
                                            !.cache = [c EXCEPT ![p].a = c[p].a - q,
                                                                ![p].r = c[p].r + q]]]
       /\ UNCHANGED <<stock, resv, orders, payments, calls, price, unsent, msvars>>

\* session.add(reservation); await session.commit(); return True
ReserveCommit(self) ==
    LET t == task[self]
        p == t.items[t.idx].product_id
        q == t.items[t.idx].quantity
    IN /\ t.pc = "res_commit"
       /\ stock' = FlushStock(t.cache)
       /\ resv' = Append(resv, [stock_id |-> p, order_id |-> t.order_id,
                                quantity |-> q, active |-> TRUE])
       /\ task' = [task EXCEPT ![self] =
                     AfterReserve([t EXCEPT !.cache = Committed(t.cache)], TRUE)]
       /\ UNCHANGED <<orders, payments, calls, price, unsent, msvars>>

----------------------------------------------------------------------------
\* InventoryService.release_reservation

\* What the caller does once release_reservation has returned.
AfterRelease(t, found) ==
    IF t.op = "release" THEN Finished(t, IF found THEN "true" ELSE "false")
    ELSE [t EXCEPT !.pc = "upd_status", !.released = found,
                   !.rq = <<>>, !.pend = {}]

\* release_reservation's exception as it would be if the callers went on as
\* after a release that found nothing.
ReleaseRaisedIgnored(t) ==
    IF t.op = "release" THEN Finished(t, "false")
    ELSE [t EXCEPT !.pc = "upd_status", !.released = FALSE,
                   !.rq = <<>>, !.pend = {}]

\* What the caller does with an exception of release_reservation. create_order
\* calls _cancel_order_internal inside the except block of the reservation
\* loop, so the exception leaves through the outer "except Exception:
\* rollback; raise"; process_order_payment and cancel_order re-raise it; the
\* release endpoint turns it into an HTTP 500.
ReleaseRaised(t) == Finished(t, "ReleaseError")

\* A statement of release_reservation raises (the select of the
\* reservations, the select of a stock row, the commit): "except Exception:
\* await session.rollback(); raise" drops the uncommitted changes.
ReleaseFails(self) ==
    LET t == task[self]
    IN /\ t.pc \in {"rel_select", "rel_load", "rel_commit"}
       /\ task' = [task EXCEPT ![self] = ReleaseRaised(t)]
       /\ UNCHANGED <<stock, resv, orders, payments, calls, price, unsent, msvars>>

\* select(StockReservation).where(order_id == .., active == True)
ReleaseSelect(self) ==
    LET t == task[self]
        ids == ActiveIds(t.order_id)
    IN /\ t.pc = "rel_select"
       /\ IF ids = {}
          THEN task' = [task EXCEPT ![self] = AfterRelease(t, FALSE)]
          ELSE task' = [task EXCEPT ![self] =
                          [t EXCEPT !.pc = "rel_load", !.rq = SetToSeq(ids)]]
       /\ UNCHANGED <<stock, resv, orders, payments, calls, price, unsent, msvars>>

\* ReleaseLoad without "stock.reserved_quantity -= reservation.quantity".
ReleaseLoadKeepsReserved(self) ==
    LET t == task[self]
        i == Head(t.rq)
        p == resv[i].stock_id
        q == resv[i].quantity
        c == LoadStock(t.cache, p)
    IN /\ t.pc = "rel_load"
       /\ task' = [task EXCEPT ![self] =
                     [t EXCEPT !.cache = [c EXCEPT ![p].a = c[p].a + q],
                               !.pend = t.pend \cup {i},
                               !.rq = Tail(t.rq),
                               !.pc = IF Tail(t.rq) = <<>> THEN "rel_commit"
                                      ELSE "rel_load"]]
       /\ UNCHANGED <<stock, resv, orders, payments, calls, price, unsent, msvars>>

\* One turn of the loop: select(Stock).where(id == reservation.stock_id),
\* then the in-memory update of the stock and of reservation.active.
ReleaseLoad(self) ==
    LET t == task[self]
        i == Head(t.rq)
        p == resv[i].stock_id
        q == resv[i].quantity
        c == LoadStock(t.cache, p)
    IN /\ t.pc = "rel_load"
       /\ task' = [task EXCEPT ![self] =
                     [t EXCEPT !.cache = [c EXCEPT ![p].a = c[p].a + q,
                                                   ![p].r = c[p].r - q],
                               !.pend = t.pend \cup {i},
                               !.rq = Tail(t.rq),
                               !.pc = IF Tail(t.rq) = <<>> THEN "rel_commit"
                                      ELSE "rel_load"]]
       /\ UNCHANGED <<stock, resv, orders, payments, calls, price, unsent, msvars>>

\* ReleaseCommit without "reservation.active = False".
ReleaseCommitKeepsActive(self) ==
    LET t == task[self]
    IN /\ t.pc = "rel_commit"
       /\ stock' = FlushStock(t.cache)
       /\ resv' = resv
       /\ task' = [task EXCEPT ![self] =
                     AfterRelease([t EXCEPT !.cache = Committed(t.cache)], TRUE)]
       /\ UNCHANGED <<orders, payments, calls, price, unsent, msvars>>

\* await session.commit(); return True
ReleaseCommit(self) ==
    LET t == task[self]
    IN /\ t.pc = "rel_commit"
       /\ stock' = FlushStock(t.cache)
       /\ resv' = [i \in DOMAIN resv |->
                     IF i \in t.pend THEN [resv[i] EXCEPT !.active = FALSE]
                     ELSE resv[i]]
       /\ task' = [task EXCEPT ![self] =
                     AfterRelease([t EXCEPT !.cache = Committed(t.cache)], TRUE)]
       /\ UNCHANGED <<orders, payments, calls, price, unsent, msvars>>

----------------------------------------------------------------------------
\* Requests to the ledger's own endpoints (routers/inventory.py).

StartReserve(self) ==
    /\ task[self].pc = "idle"
    /\ calls < MaxCalls
    /\ calls' = calls + 1
    /\ \E p \in AnyProducts, q \in Quantities, o \in OrderIds :
          task' = [task EXCEPT ![self] =
                     [IdleTask EXCEPT !.pc = "res_read", !.op = "reserve",
                                      !.order_id = o, !.idx = 1,
                                      !.items = <<[product_id |-> p, quantity |-> q]>>]]
    /\ UNCHANGED <<stock, resv, orders, payments, price, unsent, msvars>>

StartRelease(self) ==
    /\ task[self].pc = "idle"
    /\ calls < MaxCalls
    /\ calls' = calls + 1
    /\ \E o \in OrderIds :
          task' = [task EXCEPT ![self] =
                     [IdleTask EXCEPT !.pc = "rel_select", !.op = "release",
                                      !.order_id = o]]
    /\ UNCHANGED <<stock, resv, orders, payments, price, unsent, msvars>>

----------------------------------------------------------------------------
\* OrderService._update_order_status and the caller's next lines

\* inventory_service.confirm_reservation(session, order_id): InventoryService
\* defines no such method, so the attribute lookup raises AttributeError,
\* which process_order_payment re-raises.
ConfirmReservation(t) == Finished(t, "AttributeError")

\* get_order_by_id finds the session's own Order object; order.status =
\* new_status is written by the commit when it differs from the loaded value.
UpdateOrderStatus(self) ==
    LET t == task[self]
    IN /\ t.pc = "upd_status"
       /\ orders' = IF t.seen # t.new_status
                    THEN [orders EXCEPT ![t.order_id].status = t.new_status]
                    ELSE orders
       /\ task' = [task EXCEPT ![self] = [t EXCEPT !.pc = "notify_status"]]
       /\ UNCHANGED <<stock, resv, payments, calls, price, unsent, msvars>>

\* What follows _update_order_status in each caller.
AfterStatusUpdate(t) ==
    CASE t.op = "create" -> Finished(t, "InsufficientInventory")
      [] t.op = "cancel" -> Finished(t, "true")
      [] t.op = "pay" /\ t.pay_status = "completed" -> ConfirmReservation(t)
      [] OTHER -> Finished(t, "ok")

\* NotificationService.send_*: _create_notification commits the row as
\* PENDING, _simulate_email_send raises when the send fails, and only after a
\* send that worked is the row marked SENT.
SendNotification(sent) ==
    /\ sent \/ unsent < MaxUnsent
    /\ unsent' = IF sent THEN unsent ELSE unsent + 1

\* _update_order_status as it would be without the try/except around the
\* notification.
NotifyStatusRaises(self) ==
    LET t == task[self]
    IN /\ t.pc = "notify_status"
       /\ \E sent \in BOOLEAN :
             /\ SendNotification(sent)
             /\ task' = [task EXCEPT ![self] =
                            IF sent THEN AfterStatusUpdate(t)
                            ELSE Finished(t, "Exception")]
       /\ UNCHANGED <<stock, resv, orders, payments, calls, price, msvars>>

\* notification_service.send_order_status_update inside try/except: pass
NotifyStatus(self) ==
    LET t == task[self]
    IN /\ t.pc = "notify_status"
       /\ \E sent \in BOOLEAN :
             /\ SendNotification(sent)
             /\ task' = [task EXCEPT ![self] = AfterStatusUpdate(t)]
       /\ UNCHANGED <<stock, resv, orders, payments, calls, price, msvars>>

----------------------------------------------------------------------------
\* OrderService.create_order

\* The lines with the prices read by the product lookups.
Priced(items) ==
    [i \in DOMAIN items |->
        [product_id |-> items[i].product_id,
         quantity |-> items[i].quantity,
         unit_price |-> price[items[i].product_id],
         total_price |-> price[items[i].product_id] * items[i].quantity]]

TotalAmount(lines) ==
    SeqSum([i \in DOMAIN lines |-> lines[i].total_price])

OrdersToCome ==
    Len(orders) + Cardinality({u \in Tasks : task[u].pc = "co_persist"})

\* Steps 1 and 2: user_service.get_user_by_id, then
\* product_service.get_product_by_id for every line.
\* CreateOrder without "if not user: raise ValueError".
CreateOrderAnyUser(self, user_id, items) ==
    /\ task[self].pc = "idle"
    /\ calls < MaxCalls
    /\ calls' = calls + 1
    /\ LET t == [IdleTask EXCEPT !.op = "create", !.user_id = user_id,
                                 !.items = items]
       IN IF \E i \in DOMAIN items : items[i].product_id \notin KnownProducts
          THEN task' = [task EXCEPT ![self] = Finished(t, "ProductNotFound")]
          ELSE /\ OrdersToCome < MaxOrders
               /\ task' = [task EXCEPT ![self] =
                                   [t EXCEPT !.pc = "co_persist",
                                             !.items = Priced(items)]]
    /\ UNCHANGED <<stock, resv, orders, payments, price, unsent, msvars>>

\* CreateOrder looking up the product of the first line only.
CreateOrderChecksFirstLine(self, user_id, items) ==
    /\ task[self].pc = "idle"
    /\ calls < MaxCalls
    /\ calls' = calls + 1
    /\ LET t == [IdleTask EXCEPT !.op = "create", !.user_id = user_id,
                                 !.items = items]
           lines == [k \in DOMAIN items |->
                       IF items[k].product_id \in KnownProducts
                       THEN Priced(<<items[k]>>)[1]
                       ELSE [product_id |-> items[k].product_id,
                             quantity |-> items[k].quantity,
                             unit_price |-> 0, total_price |-> 0]]
       IN IF user_id \notin KnownUsers
          THEN task' = [task EXCEPT ![self] = Finished(t, "UserNotFound")]
          ELSE IF items # <<>> /\ items[1].product_id \notin KnownProducts
               THEN task' = [task EXCEPT ![self] = Finished(t, "ProductNotFound")]
               ELSE /\ OrdersToCome < MaxOrders
                    /\ task' = [task EXCEPT ![self] =
                                   [t EXCEPT !.pc = "co_persist",
                                             !.items = lines]]
    /\ UNCHANGED <<stock, resv, orders, payments, price, unsent, msvars>>

CreateOrder(self, user_id, items) ==
    /\ task[self].pc = "idle"
    /\ calls < MaxCalls
    /\ calls' = calls + 1
    /\ LET t == [IdleTask EXCEPT !.op = "create", !.user_id = user_id,
                                 !.items = items]
       IN IF user_id \notin KnownUsers
          THEN task' = [task EXCEPT ![self] = Finished(t, "UserNotFound")]
          ELSE IF \E i \in DOMAIN items : items[i].product_id \notin KnownProducts
               THEN task' = [task EXCEPT ![self] = Finished(t, "ProductNotFound")]
               ELSE /\ OrdersToCome < MaxOrders
                    /\ task' = [task EXCEPT ![self] =
                                   [t EXCEPT !.pc = "co_persist",
                                             !.items = Priced(items)]]
    /\ UNCHANGED <<stock, resv, orders, payments, price, unsent, msvars>>

\* A request with a non-empty list of lines of positive quantity.
CreateValidate(self) ==
    \E u \in AnyUsers, its \in ItemLists : CreateOrder(self, u, its)

\* A request of up to MaxLines lines.
CreateLong(self) ==
    \E u \in AnyUsers, its \in LongItemLists : CreateOrder(self, u, its)

\* Any request body the schema accepts.
CreateAnyRequest(self) ==
    \E its \in RawItemLists : CreateOrder(self, 1, its)

\* Step 3: the Order row, then its OrderItem rows (two commits of the same
\* session; no other request reads order_items).
CreatePersist(self) ==
    LET t == task[self]
    IN /\ t.pc = "co_persist"
       /\ orders' = Append(orders, [user_id |-> t.user_id, status |-> PENDING,
                                    total_amount |-> TotalAmount(t.items),
                                    items |-> t.items])
       /\ task' = [task EXCEPT ![self] =
                     [t EXCEPT !.pc = IF t.items = <<>> THEN "co_notify"
                                      ELSE "res_read",
                               !.order_id = Len(orders) + 1,
                               !.seen = PENDING, !.idx = 1]]
       /\ UNCHANGED <<stock, resv, payments, calls, price, unsent, msvars>>

\* Step 5: notification_service.send_order_confirmation inside try/except:
\* pass, then return order.
CreateNotify(self) ==
    LET t == task[self]
    IN /\ t.pc = "co_notify"
       /\ \E sent \in BOOLEAN :
             /\ SendNotification(sent)
             /\ task' = [task EXCEPT ![self] = Finished(t, "ok")]
       /\ UNCHANGED <<stock, resv, orders, payments, calls, price, msvars>>

\* The caller cancels the task while it is suspended in the reservation loop.
\* asyncio.CancelledError derives from BaseException (the code needs Python
\* 3.9: "list[str]" in routers/demo.py), so neither "except Exception" of
\* create_order catches it: the call ends there, and get_session closes the
\* session, which drops what was not committed.
CallerCancels(self) ==
    LET t == task[self]
    IN /\ t.op = "create"
       /\ t.pc \in {"res_read", "res_commit"}
       /\ task' = [task EXCEPT ![self] = Finished(t, "CancelledError")]
       /\ UNCHANGED <<stock, resv, orders, payments, calls, price, unsent, msvars>>

----------------------------------------------------------------------------
\* OrderService.process_order_payment

\* ProcessPaymentGet without "if order.status != OrderStatus.PENDING: raise".
ProcessPaymentGetAnyStatus(self) ==
    /\ task[self].pc = "idle"
    /\ calls < MaxCalls
    /\ calls' = calls + 1
    /\ \E o \in OrderIds :
          LET t == [IdleTask EXCEPT !.op = "pay", !.order_id = o]
          IN IF o > Len(orders)
             THEN task' = [task EXCEPT ![self] = Finished(t, "OrderNotFound")]
             ELSE task' = [task EXCEPT ![self] =
                             [t EXCEPT !.pc = "pay_insert", !.seen = orders[o].status]]
    /\ UNCHANGED <<stock, resv, orders, payments, price, unsent, msvars>>

\* get_order_by_id and the two precondition checks.
ProcessPaymentGet(self) ==
    /\ task[self].pc = "idle"
    /\ calls < MaxCalls
    /\ calls' = calls + 1
    /\ \E o \in OrderIds :
          LET t == [IdleTask EXCEPT !.op = "pay", !.order_id = o]
          IN IF o > Len(orders)
             THEN task' = [task EXCEPT ![self] = Finished(t, "OrderNotFound")]
             ELSE IF orders[o].status # PENDING
                  THEN task' = [task EXCEPT ![self] =
                                  Finished([t EXCEPT !.seen = orders[o].status],
                                           "NotPending")]
                  ELSE /\ task' = [task EXCEPT ![self] =
                                     [t EXCEPT !.pc = "pay_insert", !.seen = PENDING]]
    /\ UNCHANGED <<stock, resv, orders, payments, price, unsent, msvars>>

\* PaymentService.process_payment: the Payment row is committed as PENDING
\* before the gateway is called.
PaymentInsert(self) ==
    LET t == task[self]
    IN /\ t.pc = "pay_insert"
       /\ payments' = Append(payments, [order_id |-> t.order_id, status |-> "pending"])
       /\ task' = [task EXCEPT ![self] =
                     [t EXCEPT !.pc = "pay_gateway", !.payment = Len(payments) + 1]]
       /\ UNCHANGED <<stock, resv, orders, calls, price, unsent, msvars>>

\* _simulate_payment_gateway, the commit of its result, and the branch of
\* process_order_payment on payment.status.
PaymentGateway(self) ==
    LET t == task[self]
    IN /\ t.pc = "pay_gateway"
       /\ \E success \in BOOLEAN :
             /\ payments' = [payments EXCEPT ![t.payment].status =
                               IF success THEN "completed" ELSE "failed"]
             /\ task' = [task EXCEPT ![self] =
                           IF success
                           THEN [t EXCEPT !.pc = "upd_status", !.pay_status = "completed",
                                          !.new_status = CONFIRMED]
                           ELSE [t EXCEPT !.pc = "rel_select", !.pay_status = "failed",
                                          !.new_status = CANCELLED]]
       /\ UNCHANGED <<stock, resv, orders, calls, price, unsent, msvars>>

----------------------------------------------------------------------------
\* OrderService.cancel_order -> _cancel_order_internal

CancelGet(self) ==
    /\ task[self].pc = "idle"
    /\ calls < MaxCalls
    /\ calls' = calls + 1
    /\ \E o \in OrderIds :
          LET t == [IdleTask EXCEPT !.op = "cancel", !.order_id = o]
          IN IF o > Len(orders)
             THEN task' = [task EXCEPT ![self] = Finished(t, "false")]
             ELSE task' = [task EXCEPT ![self] =
                             [t EXCEPT !.pc = "rel_select", !.seen = orders[o].status,
                                       !.new_status = CANCELLED]]
    /\ UNCHANGED <<stock, resv, orders, payments, price, unsent, msvars>>

----------------------------------------------------------------------------
\* ProductService.update_product (PUT /products/{product_id}) with a price

NewPrices == {1, 5}

\* update_product as it would be if order lines followed the product's price.
UpdateProductRepricesOrders(self) ==
    /\ task[self].pc = "idle"
    /\ calls < MaxCalls
    /\ calls' = calls + 1
    /\ \E p \in AnyProducts, v \in NewPrices :
          LET t == [IdleTask EXCEPT !.op = "update_product"]
              Repriced(l) == IF l.product_id = p
                             THEN [l EXCEPT !.unit_price = v,
                                            !.total_price = v * l.quantity]
                             ELSE l
          IN IF p \notin KnownProducts
             THEN /\ task' = [task EXCEPT ![self] = Finished(t, "None")]
                  /\ UNCHANGED <<price, orders>>
             ELSE /\ price' = [price EXCEPT ![p] = v]
                  /\ orders' = [o \in DOMAIN orders |->
                                  [orders[o] EXCEPT !.items =
                                      [k \in DOMAIN orders[o].items |->
                                          Repriced(orders[o].items[k])]]]
                  /\ task' = [task EXCEPT ![self] = Finished(t, "product")]
    /\ UNCHANGED <<stock, resv, payments, unsent, msvars>>

UpdateProduct(self) ==
    /\ task[self].pc = "idle"
    /\ calls < MaxCalls
    /\ calls' = calls + 1
    /\ \E p \in AnyProducts, v \in NewPrices :
          LET t == [IdleTask EXCEPT !.op = "update_product"]
          IN IF p \notin KnownProducts
             THEN /\ task' = [task EXCEPT ![self] = Finished(t, "None")]
                  /\ UNCHANGED price
             ELSE /\ price' = [price EXCEPT ![p] = v]
                  /\ task' = [task EXCEPT ![self] = Finished(t, "product")]
    /\ UNCHANGED <<stock, resv, orders, payments, unsent, msvars>>

----------------------------------------------------------------------------
\* InventoryService.create_or_update_stock (alias update_stock), for the
\* products that were given a stock row

StockLevels == {0, 2}

CreateOrUpdateStock(self) ==
    /\ task[self].pc = "idle"
    /\ calls < MaxCalls
    /\ calls' = calls + 1
    /\ \E p \in StockedProducts, available_quantity \in StockLevels :
          /\ stock' = [stock EXCEPT ![p] =
                          IF stock[p] # NoRow
                          THEN [stock[p] EXCEPT
                                   !.available_quantity = available_quantity]
                          ELSE [available_quantity |-> available_quantity,
                                reserved_quantity |-> 0]]
          /\ task' = [task EXCEPT ![self] =
                        Finished([IdleTask EXCEPT !.op = "update_stock"], "stock")]
    /\ UNCHANGED <<resv, orders, payments, price, unsent, msvars>>

----------------------------------------------------------------------------
\* Inventory microservice (microservices/inventory-service/main.py).  Every
\* request gets its own session (Depends(get_session), expire_on_commit=False)
\* and yields at every await.

appvars == <<stock, resv, orders, payments, price, unsent, calls, task>>

RECURSIVE RowsInIdOrder(_)
RowsInIdOrder(S) ==
    IF S = {} THEN <<>>
    ELSE LET m == CHOOSE x \in S : \A y \in S : x.id <= y.id
         IN <<m>> \o RowsInIdOrder(S \ {m})

\* session.commit(): UPDATE stock SET reserved_quantity = <session value> for
\* the rows whose reserved_quantity the session changed.
MsFlushStock(cache) ==
    [p \in StockedProducts |->
        IF cache[p] # NoRow /\ cache[p].r # cache[p].r0
        THEN [ms_stock[p] EXCEPT !.reserved_quantity = cache[p].r]
        ELSE ms_stock[p]]

\* POST /inventory/{product_id}/reserve, up to the commit: the select of the
\* stock row, the 404, the 400, and the reservation and the new
\* reserved_quantity in the session.
MsReserveStock(self, product_id, quantity, order_id) ==
    /\ ms_req[self].pc = "idle"
    /\ ms_calls < MaxMsCalls
    /\ ms_calls' = ms_calls + 1
    /\ LET t == [MsIdle EXCEPT !.op = "reserve", !.product_id = product_id,
                               !.quantity = quantity, !.order_id = order_id]
       IN IF product_id \notin StockedProducts
          THEN ms_req' = [ms_req EXCEPT ![self] = MsDone(t, "404")]
          ELSE LET row == ms_stock[product_id]
                   available == row.available_quantity - row.reserved_quantity
               IN IF available < quantity
                  THEN ms_req' = [ms_req EXCEPT ![self] = MsDone(t, "400")]
                  ELSE ms_req' = [ms_req EXCEPT ![self] =
                          [t EXCEPT !.pc = "commit",
                                    !.cache[product_id] =
                                       [r |-> row.reserved_quantity + quantity,
                                        r0 |-> row.reserved_quantity]]]
    /\ UNCHANGED <<ms_stock, ms_resv, ms_seq, appvars>>

MsReserve(self) ==
    \E p \in KnownProducts, q \in RawQuantities, o \in OrderIds :
        MsReserveStock(self, p, q, o)

\* await session.commit() of reserve_stock, and the 200.
MsReserveCommit(self) ==
    LET t == ms_req[self]
    IN /\ t.pc = "commit"
       /\ t.op = "reserve"
       /\ ms_seq' = ms_seq + 1
       /\ ms_resv' = ms_resv \cup
                       {[id |-> ms_seq + 1, stock_id |-> t.product_id,
                         order_id |-> t.order_id, quantity |-> t.quantity]}
       /\ ms_stock' = MsFlushStock(t.cache)
       /\ ms_req' = [ms_req EXCEPT ![self] = MsDone(t, "reserved")]
       /\ UNCHANGED <<ms_calls, appvars>>

\* POST /inventory/orders/{order_id}/release: the select of the order's
\* reservations.
MsReleaseSelect(self) ==
    /\ ms_req[self].pc = "idle"
    /\ ms_calls < MaxMsCalls
    /\ ms_calls' = ms_calls + 1
    /\ \E o \in OrderIds :
          LET t == [MsIdle EXCEPT !.op = "release", !.order_id = o]
              reservations == {x \in ms_resv : x.order_id = o}
          IN IF reservations = {}
             THEN ms_req' = [ms_req EXCEPT ![self] = MsDone(t, "no_reservations")]
             ELSE ms_req' = [ms_req EXCEPT ![self] =
                     [t EXCEPT !.pc = "load", !.rq = RowsInIdOrder(reservations)]]
    /\ UNCHANGED <<ms_stock, ms_resv, ms_seq, appvars>>

\* One turn of the loop: select(Stock).where(id == reservation.stock_id) (a
\* row the session has loaded keeps its values), stock.reserved_quantity -=
\* reservation.quantity, session.delete(reservation).
MsReleaseLoad(self) ==
    LET t == ms_req[self]
        x == Head(t.rq)
        p == x.stock_id
        c == IF t.cache[p] # NoRow THEN t.cache
             ELSE [t.cache EXCEPT ![p] = [r |-> ms_stock[p].reserved_quantity,
                                          r0 |-> ms_stock[p].reserved_quantity]]
    IN /\ t.pc = "load"
       /\ ms_req' = [ms_req EXCEPT ![self] =
                       [t EXCEPT !.cache = [c EXCEPT ![p].r = c[p].r - x.quantity],
                                 !.pend = t.pend \cup {x.id},
                                 !.rq = Tail(t.rq),
                                 !.pc = IF Tail(t.rq) = <<>> THEN "commit"
                                        ELSE "load"]]
       /\ UNCHANGED <<ms_stock, ms_resv, ms_seq, ms_calls, appvars>>

\* await session.commit() of release_reservation, and the 200.
MsReleaseCommit(self) ==
    LET t == ms_req[self]
    IN /\ t.pc = "commit"
       /\ t.op = "release"
       /\ ms_stock' = MsFlushStock(t.cache)
       /\ ms_resv' = {x \in ms_resv : x.id \notin t.pend}
       /\ ms_req' = [ms_req EXCEPT ![self] = MsDone(t, "released")]
       /\ UNCHANGED <<ms_seq, ms_calls, appvars>>

MsNext ==
    \E self \in Tasks :
        \/ MsReserve(self)
        \/ MsReserveCommit(self)
        \/ MsReleaseSelect(self)
        \/ MsReleaseLoad(self)
        \/ MsReleaseCommit(self)

MsSpec == Init /\ [][MsNext]_vars

----------------------------------------------------------------------------
Next ==
    \E self \in Tasks :
        \/ StartReserve(self)
        \/ StartRelease(self)
        \/ ReserveRead(self)
        \/ ReserveCommit(self)
        \/ ReleaseSelect(self)
        \/ ReleaseLoad(self)
        \/ ReleaseCommit(self)
        \/ UpdateOrderStatus(self)
        \/ NotifyStatus(self)
        \/ CreateValidate(self)
        \/ CreatePersist(self)
        \/ CreateNotify(self)
        \/ CallerCancels(self)
        \/ ProcessPaymentGet(self)
        \/ PaymentInsert(self)
        \/ PaymentGateway(self)
        \/ CancelGet(self)

Spec == Init /\ [][Next]_vars

\* The orchestrator's three operations alone (routers/orders.py), without
\* requests to the ledger's own endpoints.
SagaNext ==
    \E self \in Tasks :
        \/ CreateValidate(self)
        \/ CreatePersist(self)
        \/ ReserveRead(self)
        \/ ReserveCommit(self)
        \/ CreateNotify(self)
        \/ CallerCancels(self)
        \/ ProcessPaymentGet(self)
        \/ PaymentInsert(self)
        \/ PaymentGateway(self)
        \/ CancelGet(self)
        \/ ReleaseSelect(self)
        \/ ReleaseLoad(self)
        \/ ReleaseCommit(self)
        \/ UpdateOrderStatus(self)
        \/ NotifyStatus(self)

SagaSpec == Init /\ [][SagaNext]_vars

\* The orchestrator's three operations with any request body the schema of
\* create_order accepts.
AnyRequestNext ==
    \E self \in Tasks :
        \/ CreateAnyRequest(self)
        \/ CreatePersist(self)
        \/ ReserveRead(self)
        \/ ReserveCommit(self)
        \/ CreateNotify(self)
        \/ CallerCancels(self)
        \/ ProcessPaymentGet(self)
        \/ PaymentInsert(self)
        \/ PaymentGateway(self)
        \/ CancelGet(self)
        \/ ReleaseSelect(self)
        \/ ReleaseLoad(self)
        \/ ReleaseCommit(self)
        \/ UpdateOrderStatus(self)
        \/ NotifyStatus(self)

AnyRequestSpec == Init /\ [][AnyRequestNext]_vars

\* The orchestrator's three operations next to the catalogue's price updates
\* and the ledger's stock updates.
AdminNext ==
    \/ SagaNext
    \/ \E self \in Tasks :
          \/ UpdateProduct(self)
          \/ CreateOrUpdateStock(self)

AdminSpec == Init /\ [][AdminNext]_vars

\* The orchestrator's three operations with database errors during release.
FaultNext ==
    \/ SagaNext
    \/ \E self \in Tasks : ReleaseFails(self)

FaultSpec == Init /\ [][FaultNext]_vars

\* The ledger's two operations alone (routers/inventory.py).
LedgerNext ==
    \E self \in Tasks :
        \/ StartReserve(self)
        \/ ReserveRead(self)
        \/ ReserveCommit(self)
        \/ StartRelease(self)
        \/ ReleaseSelect(self)
        \/ ReleaseLoad(self)
        \/ ReleaseCommit(self)

LedgerSpec == Init /\ [][LedgerNext]_vars

\* create_order alone, with requests of up to MaxLines lines.
CreateNext ==
    \E self \in Tasks :
        \/ CreateLong(self)
        \/ CreatePersist(self)
        \/ ReserveRead(self)
        \/ ReserveCommit(self)
        \/ CreateNotify(self)
        \/ CallerCancels(self)
        \/ ReleaseSelect(self)
        \/ ReleaseLoad(self)
        \/ ReleaseCommit(self)
        \/ UpdateOrderStatus(self)
        \/ NotifyStatus(self)

CreateSpec == Init /\ [][CreateNext]_vars

----------------------------------------------------------------------------
\* Vocabulary of the properties.

RECURSIVE SumQty(_)
SumQty(ids) ==
    IF ids = {} THEN 0
    ELSE LET i == CHOOSE x \in ids : TRUE
         IN resv[i].quantity + SumQty(ids \ {i})

\* Units of product p held by active reservations.
HeldQty(p) == SumQty({i \in DOMAIN resv : resv[i].stock_id = p /\ resv[i].active})

AllIdle == \A t \in Tasks : task[t].pc = "idle"

\* The requested lines of order o, and the lines its active reservations hold
\* (reservations are inserted in line order).
RequestedLines(o) ==
    [k \in DOMAIN orders[o].items |->
        <<orders[o].items[k].product_id, orders[o].items[k].quantity>>]

HeldLines(o) ==
    LET ids == SetToSeq(ActiveIds(o))
    IN [k \in DOMAIN ids |-> <<resv[ids[k]].stock_id, resv[ids[k]].quantity>>]

PaymentCompleted(o) ==
    \E k \in DOMAIN payments :
        payments[k].order_id = o /\ payments[k].status = "completed"

----------------------------------------------------------------------------
\* C1 -- No oversell: the units of a product held by active reservations
\* never exceed the available_quantity the product started with, whatever
\* the interleaving of the create_order calls.
C1_NoOversell ==
    \A p \in StockedProducts : HeldQty(p) <= InitAvailable[p]

\* C2 -- No partial orders: once every call has returned, a PENDING order
\* holds an active reservation for each of its lines and a CANCELLED order
\* holds none.
C2_NoPartialOrders ==
    AllIdle =>
        \A o \in DOMAIN orders :
            /\ orders[o].status = PENDING => HeldLines(o) = RequestedLines(o)
            /\ orders[o].status = CANCELLED => ActiveIds(o) = {}

C5_IdempotentRelease ==
    [][\A t \in Tasks :
          LET o == task[t].order_id
          IN /\ ( /\ task[t].op = "release"
                  /\ task[t].pc = "rel_commit" /\ task'[t].pc # "rel_commit"
                  /\ ActiveIds(o) \subseteq task[t].pend )
                => {i \in DOMAIN resv' : resv'[i].order_id = o /\ resv'[i].active} = {}
             /\ ( /\ task[t].op = "release"
                  /\ task[t].pc = "rel_select" /\ task'[t].pc # "rel_select"
                  /\ ActiveIds(o) = {} )
                => /\ task'[t].pc = "idle" /\ task'[t].ret = "false"
                   /\ UNCHANGED <<stock, resv, orders, payments>>]_vars

\* release(1) has returned true and a later release(1) has returned false.
C5_Witness ==
    /\ task[1].pc = "idle" /\ task[1].op = "release" /\ task[1].ret = "true"
    /\ task[2].pc = "idle" /\ task[2].op = "release" /\ task[2].ret = "false"
    /\ task[1].order_id = task[2].order_id
    /\ \E i \in DOMAIN resv : resv[i].order_id = task[1].order_id /\ ~resv[i].active
    /\ ActiveIds(task[1].order_id) = {}

\* C6 -- Payment failure compensation: the release run by a failed
\* process_payment makes every reservation it found inactive, moves exactly
\* their quantities from reserved_quantity back to available_quantity, and
\* the order then becomes CANCELLED.
C6_PaymentFailureCompensation ==
    [][\A t \in Tasks :
          /\ ( /\ task[t].op = "pay" /\ task[t].pay_status = "failed"
               /\ task[t].pc = "rel_commit" /\ task'[t].pc # "rel_commit" )
             => /\ \A i \in task[t].pend : ~resv'[i].active
                /\ \A p \in StockedProducts :
                      LET q == SumQty({i \in task[t].pend : resv[i].stock_id = p})
                      IN /\ stock'[p].available_quantity
                              = stock[p].available_quantity + q
                         /\ stock'[p].reserved_quantity
                              = stock[p].reserved_quantity - q
          /\ ( /\ task[t].op = "pay" /\ task[t].pay_status = "failed"
               /\ task[t].pc = "upd_status" /\ task'[t].pc # "upd_status" )
             => orders'[task[t].order_id].status = CANCELLED]_vars

\* C7 -- Payment success confirmation: when process_payment has returned
\* after a successful charge, the order is CONFIRMED and holds no active
\* reservation.
C7_PaymentSuccessConfirms ==
    \A t \in Tasks :
        ( task[t].pc = "idle" /\ task[t].op = "pay"
          /\ task[t].pay_status = "completed" )
        => /\ orders[task[t].order_id].status = CONFIRMED
           /\ ActiveIds(task[t].order_id) = {}

\* C8 -- Consumed stock is never released: no step that ends a reservation
\* of an order whose payment succeeded raises the available_quantity of the
\* reservation's stock.
C8_ConsumedNeverReleased ==
    [][\A i \in DOMAIN resv :
          ( PaymentCompleted(resv[i].order_id)
            /\ resv[i].active /\ ~resv'[i].active )
          => stock'[resv[i].stock_id].available_quantity
                <= stock[resv[i].stock_id].available_quantity]_vars

\* C9 -- process_payment on an order that does not exist or is not PENDING
\* ends at once with an error and writes nothing: no payment row, no
\* reservation or stock change, no status change.
C9_PaymentPreconditions ==
    [][\A t \in Tasks :
          ( /\ ProcessPaymentGet(t)
            /\ \/ task'[t].order_id \notin DOMAIN orders
               \/ orders[task'[t].order_id].status # PENDING )
          => /\ task'[t].pc = "idle"
             /\ task'[t].ret \in {"OrderNotFound", "NotPending"}
             /\ UNCHANGED <<stock, resv, orders, payments>>]_vars

\* process_payment has been refused on an order that is CONFIRMED or
\* CANCELLED.
C9_Witness ==
    \E t \in Tasks :
        /\ task[t].pc = "idle" /\ task[t].op = "pay" /\ task[t].ret = "NotPending"
        /\ task[t].order_id \in DOMAIN orders
        /\ orders[task[t].order_id].status \in {CONFIRMED, CANCELLED}
        /\ payments = <<>>

\* C10 -- cancel_order on a CONFIRMED or CANCELLED order is refused with
\* InvalidOrderState.
C10_CancelOnlyPending ==
    \A t \in Tasks :
        ( task[t].pc = "idle" /\ task[t].op = "cancel"
          /\ task[t].seen \in {CONFIRMED, CANCELLED} )
        => task[t].ret = "InvalidOrderState"

\* C11 -- cancel_order on a PENDING order: its release makes every
\* reservation it found inactive and moves exactly their quantities from
\* reserved_quantity back to available_quantity, and the status step that
\* follows sets the order to CANCELLED with no active reservation left.
C11_CancelReleasesThenCancels ==
    [][\A t \in Tasks :
          /\ ( /\ task[t].op = "cancel" /\ task[t].seen = PENDING
               /\ task[t].pc = "rel_commit" /\ task'[t].pc # "rel_commit" )
             => /\ \A i \in task[t].pend : ~resv'[i].active
                /\ \A p \in StockedProducts :
                      LET q == SumQty({i \in task[t].pend : resv[i].stock_id = p})
                      IN /\ stock'[p].available_quantity
                              = stock[p].available_quantity + q
                         /\ stock'[p].reserved_quantity
                              = stock[p].reserved_quantity - q
          /\ ( /\ task[t].op = "cancel" /\ task[t].seen = PENDING
               /\ task[t].pc = "upd_status" /\ task'[t].pc # "upd_status" )
             => /\ orders'[task[t].order_id].status = CANCELLED
                /\ \A i \in DOMAIN resv' :
                      resv'[i].order_id = task[t].order_id => ~resv'[i].active]_vars

\* C12 -- Compensation on failed reservation: when a line of create_order
\* cannot be reserved, the release run by the call makes every reservation
\* the call made inactive and moves exactly their quantities back from
\* reserved_quantity to available_quantity (the stock is as before the
\* call), the order is then set to CANCELLED, and the call ends with
\* InsufficientInventory.
C12_FailedReservationCompensated ==
    [][\A t \in Tasks :
          LET o == task[t].order_id
          IN /\ ( /\ task[t].op = "create"
                  /\ task[t].pc = "rel_commit" /\ task'[t].pc # "rel_commit" )
                => /\ \A i \in DOMAIN resv' : resv'[i].order_id = o => ~resv'[i].active
                   /\ \A p \in StockedProducts :
                         LET q == SumQty({i \in task[t].pend : resv[i].stock_id = p})
                         IN /\ stock'[p].available_quantity
                                 = stock[p].available_quantity + q
                            /\ stock'[p].reserved_quantity
                                 = stock[p].reserved_quantity - q
             /\ ( /\ task[t].op = "create"
                  /\ task[t].pc = "upd_status" /\ task'[t].pc # "upd_status" )
                => orders'[o].status = CANCELLED
             /\ ( /\ task[t].op = "create"
                  /\ task[t].pc = "notify_status" /\ task'[t].pc # "notify_status" )
                => /\ task'[t].pc = "idle"
                   /\ task'[t].ret = "InsufficientInventory"]_vars

\* C13 -- Caller cancellation is compensated: once a create_order call that
\* its caller cancelled during the reservation loop has ended, its order is
\* CANCELLED and holds no active reservation.
C13_CallerCancellationCompensated ==
    \A t \in Tasks :
        ( task[t].pc = "idle" /\ task[t].op = "create"
          /\ task[t].ret = "CancelledError" )
        => /\ orders[task[t].order_id].status = CANCELLED
           /\ ActiveIds(task[t].order_id) = {}

\* C14 -- process_payment returns the updated order in both branches: a
\* call that got the gateway's answer ends normally, never with an error,
\* and does not leave the order PENDING.
C14_PaymentReturnsOrder ==
    \A t \in Tasks :
        ( task[t].pc = "idle" /\ task[t].op = "pay"
          /\ task[t].pay_status \in {"completed", "failed"} )
        => /\ task[t].ret = "ok"
           /\ orders[task[t].order_id].status # PENDING

\* C15 -- create_order for a user_id the user service does not resolve ends
\* with UserNotFound and creates no order, no order item and no reservation,
\* and changes no stock quantity.
C15_UserNotFound ==
    [][\A t \in Tasks :
          ( task[t].pc = "idle" /\ task'[t].op = "create" )
          => \A u \in AnyUsers \ KnownUsers, its \in ItemLists :
                CreateOrder(t, u, its)
                => /\ task'[t].pc = "idle"
                   /\ task'[t].ret = "UserNotFound"
                   /\ UNCHANGED <<stock, resv, orders, payments>>]_vars

\* A create_order has been refused with UserNotFound while an order with an
\* active reservation exists.
C15_Witness ==
    /\ \E t \in Tasks :
          task[t].pc = "idle" /\ task[t].op = "create"
          /\ task[t].ret = "UserNotFound"
    /\ Len(orders) = 1
    /\ ActiveIds(1) # {}

\* C16 -- create_order for a known user ends with ProductNotFound when any
\* line, first, middle or last, names a product the product service does
\* not resolve, and creates no order, no order item and no reservation.
C16_ProductNotFound ==
    [][\A t \in Tasks :
          ( task[t].pc = "idle" /\ task'[t].op = "create" )
          => \A u \in KnownUsers, its \in LongItemLists :
                ( /\ \E k \in DOMAIN its : its[k].product_id \notin KnownProducts
                  /\ CreateOrder(t, u, its) )
                => /\ task'[t].pc = "idle"
                   /\ task'[t].ret = "ProductNotFound"
                   /\ UNCHANGED <<stock, resv, orders, payments>>]_vars

\* A create_order has been refused with ProductNotFound while an order with
\* an active reservation exists.
C16_Witness ==
    /\ \E t \in Tasks :
          task[t].pc = "idle" /\ task[t].op = "create"
          /\ task[t].ret = "ProductNotFound"
    /\ Len(orders) = 1
    /\ ActiveIds(1) # {}

\* C17 -- Input validation precedes all effects: no Order row is ever
\* created for a request whose items list is empty or has a line whose
\* quantity is not greater than 0.
C17_ValidationPrecedesEffects ==
    \A o \in DOMAIN orders :
        /\ orders[o].items # <<>>
        /\ \A k \in DOMAIN orders[o].items : orders[o].items[k].quantity > 0

\* C18 -- Non-negative stock: every Stock row has available_quantity >= 0
\* and reserved_quantity >= 0 in every reachable state.
C18_NonNegativeStock ==
    \A p \in StockedProducts :
        /\ stock[p].available_quantity >= 0
        /\ stock[p].reserved_quantity >= 0

\* C19 -- A refused reserve mutates nothing: a reserve_stock call that reads
\* the stock of a product without Stock row, or with available_quantity <
\* quantity, is refused there and then (it returns false) and leaves every
\* table unchanged.
C19_RefusedReserveMutatesNothing ==
    [][\A t \in Tasks :
          ( /\ task[t].pc = "res_read" /\ task'[t] # task[t]
            /\ ~(task'[t].pc = "idle" /\ task'[t].ret = "CancelledError")
            /\ LET p == task[t].items[task[t].idx].product_id
                   q == task[t].items[task[t].idx].quantity
               IN \/ stock[p] = NoRow
                  \/ stock[p].available_quantity < q )
          => /\ task'[t].pc # "res_commit"
             /\ task[t].op = "reserve"
                  => task'[t].pc = "idle" /\ task'[t].ret = "false"
             /\ UNCHANGED <<stock, resv, orders, payments>>]_vars

\* C20 -- A successful reserve, in the one step that commits it, lowers the
\* product's available_quantity by exactly quantity, raises its
\* reserved_quantity by exactly quantity, inserts exactly one active
\* reservation for (stock, order, quantity) and changes no other Stock row.
C20_SuccessfulReserveEffect ==
    [][\A t \in Tasks :
          ( task[t].pc = "res_commit" /\ task'[t] # task[t]
            /\ ~(task'[t].pc = "idle" /\ task'[t].ret = "CancelledError") )
          => LET p == task[t].items[task[t].idx].product_id
                 q == task[t].items[task[t].idx].quantity
             IN /\ stock'[p].available_quantity = stock[p].available_quantity - q
                /\ stock'[p].reserved_quantity = stock[p].reserved_quantity + q
                /\ resv' = Append(resv, [stock_id |-> p, order_id |-> task[t].order_id,
                                         quantity |-> q, active |-> TRUE])
                /\ \A r \in AnyProducts \ {p} : stock'[r] = stock[r]]_vars

\* C21 -- Reservation lifecycle is one-way: a reservation is inserted
\* active, an inactive reservation never becomes active again and no other
\* column of a reservation changes, and a release that ends on a reservation
\* which is already inactive does not return its quantity to
\* available_quantity a second time.
C21_ReservationOneWay ==
    [][/\ Len(resv') >= Len(resv)
       /\ \A i \in DOMAIN resv' \ DOMAIN resv : resv'[i].active
       /\ \A i \in DOMAIN resv :
             /\ resv'[i] = [resv[i] EXCEPT !.active = resv'[i].active]
             /\ ~resv[i].active => ~resv'[i].active
       /\ \A t \in Tasks :
             ( task[t].pc = "rel_commit" /\ task'[t].pc # "rel_commit" )
             => \A i \in task[t].pend :
                   ~resv[i].active
                   => stock'[resv[i].stock_id].available_quantity
                         <= stock[resv[i].stock_id].available_quantity]_vars

C23_NotificationFailureIgnored ==
    [][\A t \in Tasks :
          ( task[t].pc \in {"co_notify", "notify_status"} /\ task'[t] # task[t] )
          => /\ UNCHANGED <<stock, resv, orders, payments>>
             /\ task'[t] = IF task[t].pc = "co_notify"
                           THEN Finished(task[t], "ok")
                           ELSE AfterStatusUpdate(task[t])
             /\ task'[t].ret # "Exception"]_vars

\* The only request so far was a create_order; its confirmation could not be
\* sent, and it returned the PENDING order with every line reserved.
C23_Witness ==
    /\ unsent = 1
    /\ calls = 1
    /\ Len(orders) = 1
    /\ orders[1].status = PENDING
    /\ HeldLines(1) = RequestedLines(1)
    /\ \E t \in Tasks :
          task[t].pc = "idle" /\ task[t].op = "create" /\ task[t].ret = "ok"

\* C24 -- A failed release is surfaced: when release_reservation raises while
\* create_order compensates a failed reservation, while process_order_payment
\* compensates a failed charge or during cancel_order, the request ends there
\* with the release's error; it does not go on to mark the order CANCELLED as
\* if the release had worked, and it does not run the release again.
C24_FailedReleaseSurfaced ==
    [][\A t \in Tasks :
          ReleaseFails(t)
          => /\ task'[t].pc = "idle"
             /\ task'[t].ret = "ReleaseError"
             /\ task'[t].op = task[t].op
             /\ UNCHANGED <<stock, resv, orders, payments>>]_vars

\* A create_order whose compensation failed and a payment or cancellation
\* whose release failed have both ended with the release's error; the order
\* of the latter is still PENDING and holds its reservations.
C24_Witness ==
    \E t, u \in Tasks :
        /\ task[t].pc = "idle" /\ task[t].op = "create"
        /\ task[t].ret = "ReleaseError"
        /\ task[u].pc = "idle" /\ task[u].op \in {"pay", "cancel"}
        /\ task[u].ret = "ReleaseError"
        /\ orders[task[u].order_id].status = PENDING
        /\ ActiveIds(task[u].order_id) # {}

\* C25 -- Single-writer ownership: an order's status changes only in the
\* status update of a create_order, process_order_payment or cancel_order
\* call on that order, and a stock row's quantities change only in the commit
\* of a reserve_stock or release_reservation; every other step leaves them
\* unchanged.
C25_SingleWriter ==
    [][/\ \A o \in DOMAIN orders :
             orders'[o].status # orders[o].status
             => \E t \in Tasks :
                   /\ task[t].pc = "upd_status"
                   /\ task[t].op \in {"create", "pay", "cancel"}
                   /\ task[t].order_id = o
                   /\ task'[t] # task[t]
       /\ \A p \in StockedProducts :
             stock'[p] # stock[p]
             => \E t \in Tasks :
                   /\ task[t].pc \in {"res_commit", "rel_commit"}
                   /\ task'[t] # task[t]]_vars

\* Units of the reservations of order o on product p, in the inventory
\* microservice.
RECURSIVE MsSumQty(_)
MsSumQty(rows) ==
    IF rows = {} THEN 0
    ELSE LET x == CHOOSE y \in rows : TRUE
         IN x.quantity + MsSumQty(rows \ {x})

MsOrderQty(o, p) ==
    MsSumQty({x \in ms_resv : x.order_id = o /\ x.stock_id = p})

\* C26 -- Inventory microservice round trip: a reserve of q units that is
\* accepted raises the stock's reserved_quantity by exactly q, a release of an
\* order lowers each stock's reserved_quantity by exactly the units of that
\* order's reservations on it, and neither changes available_quantity (for
\* reservations of one unit or more).
C26_MsRoundTrip ==
    [][\A t \in Tasks :
          ( /\ ms_req[t].pc = "commit" /\ ms_req'[t].pc = "idle"
            /\ \A x \in ms_resv' : x.quantity > 0 )
          => /\ \A p \in StockedProducts :
                   ms_stock'[p].available_quantity = ms_stock[p].available_quantity
             /\ ms_req[t].op = "reserve"
                => \A p \in StockedProducts :
                      ms_stock'[p].reserved_quantity =
                         ms_stock[p].reserved_quantity
                            + (IF p = ms_req[t].product_id
                               THEN ms_req[t].quantity ELSE 0)
             /\ ms_req[t].op = "release"
                => \A p \in StockedProducts :
                      ms_stock'[p].reserved_quantity =
                         ms_stock[p].reserved_quantity
                            - MsOrderQty(ms_req[t].order_id, p)]_vars

\* C27 -- Inventory microservice refusal: a reserve request for more than
\* available_quantity - reserved_quantity is answered with 400, inserts no
\* reservation and changes no quantity; and after any reserve and release
\* calls no stock's reserved_quantity exceeds its available_quantity.
C27_MsRefusal ==
    [][/\ \A t \in Tasks, p \in StockedProducts :
             ( /\ ms_req[t].pc = "idle"
               /\ ms_calls' = ms_calls + 1
               /\ ms_req'[t].op = "reserve"
               /\ ms_req'[t] # ms_req[t]
               /\ \E q \in RawQuantities, o \in OrderIds :
                     /\ q > ms_stock[p].available_quantity
                               - ms_stock[p].reserved_quantity
                     /\ MsReserveStock(t, p, q, o) )
             => /\ ms_req'[t].pc = "idle"
                /\ ms_req'[t].ret = "400"
                /\ UNCHANGED <<ms_stock, ms_resv>>
       /\ \A p \in StockedProducts :
             ms_stock'[p].reserved_quantity <= ms_stock'[p].available_quantity]_vars

\* C28 -- Ledger/record agreement: starting from reserved_quantity 0 and no
\* reservation, under any interleaving of reserve_stock and
\* release_reservation calls, once the calls have returned every stock's
\* reserved_quantity equals the units of its active reservations.
C28_LedgerAgreesWithRecords ==
    AllIdle =>
        \A p \in StockedProducts : stock[p].reserved_quantity = HeldQty(p)

\* C29 -- No reservation outlives a cancellation: whatever the interleaving
\* of create_order with cancel_order or process_order_payment on the same
\* order, once every call has returned, no reservation of a CANCELLED order
\* is active.
C29_NoReservationOutlivesCancel ==
    AllIdle =>
        \A i \in DOMAIN resv :
            ( resv[i].order_id \in DOMAIN orders
              /\ orders[resv[i].order_id].status = CANCELLED )
            => ~resv[i].active

\* C30 -- At most one charge per order: whatever the interleaving of the
\* process_order_payment calls on an order, the payment service is asked to
\* charge the order at most once.
C30_AtMostOneCharge ==
    \A o \in DOMAIN orders :
        Cardinality({k \in DOMAIN payments : payments[k].order_id = o}) <= 1
====
